---- MODULE Spec2Model ----
(***************************************************************************)
(* Quizly: the create-quiz pipeline (quiz_app/api/views.py,                *)
(* quiz_app/api/services.py), the nested quiz serializer                   *)
(* (quiz_app/api/serializers.py) and the owner-scoped quiz endpoints.      *)
(*                                                                         *)
(* Strings that the code parses are sequences of one-character strings, so *)
(* that urlparse, parse_qs and the f-string that builds the canonical URL  *)
(* are computed, not assumed.                                              *)
(***************************************************************************)
EXTENDS Integers, Sequences, FiniteSets, TLC

VARIABLES
    url,        \* SpecUrl: the string handed to validate_youtube_url
    comp,       \* SpecUrl: the components the input string was assembled from
    norm1,      \* SpecUrl: the result of validate_youtube_url(url)
    norm2,      \* SpecUrl: the result of validate_youtube_url on norm1's URL
    upc,        \* SpecUrl: "input" | "normalized" | "renormalized"
    quizzes,    \* the Quiz table: id -> row (NoQuiz where there is none)
    questions,  \* the Question table: quiz id -> its rows in insertion order
    nextId,     \* the next Quiz primary key
    resp,       \* the HTTP response sent last, with the request it answers
    clock,      \* int(time.time())
    files,      \* temp_audio: audio_path -> the run whose audio path+".mp3" holds
    run         \* CreateQuizView.post: each request's position and locals

urlVars == <<url, comp, norm1, norm2, upc>>

storeVars == <<quizzes, questions, nextId>>

pipeVars == <<clock, files, run>>

vars == <<url, comp, norm1, norm2, upc, quizzes, questions, nextId, resp, clock, files, run>>

(***************************************************************************)
(* Bind(v, F) is  LET x == v IN F(x)  with v evaluated exactly once: the   *)
(* operators below take a string apart character by character, and each    *)
(* names its argument this way before it reads it more than once.          *)
(***************************************************************************)
Bind(v, F(_)) == CHOOSE r \in {F(x) : x \in {v}} : TRUE

(***************************************************************************)
(* Python str operations used by services.py and by urllib.parse.          *)
(***************************************************************************)
Min(S0) == Bind(S0, LAMBDA S : CHOOSE x \in S : \A y \in S : x <= y)

Max(S0) == Bind(S0, LAMBDA S : CHOOSE x \in S : \A y \in S : x >= y)

\* s.find(c, start) with 1-based positions; 0 when c does not occur.
Find(s0, c, start) ==
    Bind(s0, LAMBDA s :
    Bind({i \in start..Len(s) : s[i] = c}, LAMBDA idx :
        IF idx = {} THEN 0 ELSE Min(idx)))

\* s.rfind(c); 0 when c does not occur.
RFind(s0, c) ==
    Bind(s0, LAMBDA s :
    Bind({i \in 1..Len(s) : s[i] = c}, LAMBDA idx :
        IF idx = {} THEN 0 ELSE Max(idx)))

\* c in s
HasChar(s0, c) == Bind(s0, LAMBDA s : \E i \in 1..Len(s) : s[i] = c)

\* sub in s
Contains(s0, sub0) ==
    Bind(s0, LAMBDA s : Bind(sub0, LAMBDA sub :
        \E i \in 1..(Len(s) - Len(sub) + 1) : SubSeq(s, i, i + Len(sub) - 1) = sub))

RECURSIVE Split(_, _)
\* s.split(c)
Split(s0, c) ==
    Bind(s0, LAMBDA s : Bind(Find(s, c, 1), LAMBDA i :
        IF i = 0 THEN <<s>>
        ELSE <<SubSeq(s, 1, i - 1)>> \o Split(SubSeq(s, i + 1, Len(s)), c)))

\* s.split(c, 1): the text before the first c and, when there is a c, the
\* text after it.
SplitOnce(s0, c) ==
    Bind(s0, LAMBDA s : Bind(Find(s, c, 1), LAMBDA i :
        IF i = 0 THEN <<s>>
        ELSE <<SubSeq(s, 1, i - 1), SubSeq(s, i + 1, Len(s))>>))

RECURSIVE LStrip(_, _)
\* s.lstrip(chars)
LStrip(s0, chars) ==
    Bind(s0, LAMBDA s :
        IF s # <<>> /\ s[1] \in chars THEN LStrip(Tail(s), chars) ELSE s)

RECURSIVE Concat(_)
\* "".join(parts)
Concat(parts0) ==
    Bind(parts0, LAMBDA parts :
        IF parts = <<>> THEN <<>> ELSE Head(parts) \o Concat(Tail(parts)))

LowerLetters ==
    {"a", "b", "c", "d", "e", "f", "g", "h", "i", "j", "k", "l", "m",
     "n", "o", "p", "q", "r", "s", "t", "u", "v", "w", "x", "y", "z"}

UpperLetters ==
    {"A", "B", "C", "D", "E", "F", "G", "H", "I", "J", "K", "L", "M",
     "N", "O", "P", "Q", "R", "S", "T", "U", "V", "W", "X", "Y", "Z"}

Digits == {"0", "1", "2", "3", "4", "5", "6", "7", "8", "9"}

\* c.lower()
LowerChar(c) ==
    CASE c = "A" -> "a" [] c = "B" -> "b" [] c = "C" -> "c" [] c = "D" -> "d"
      [] c = "E" -> "e" [] c = "F" -> "f" [] c = "G" -> "g" [] c = "H" -> "h"
      [] c = "I" -> "i" [] c = "J" -> "j" [] c = "K" -> "k" [] c = "L" -> "l"
      [] c = "M" -> "m" [] c = "N" -> "n" [] c = "O" -> "o" [] c = "P" -> "p"
      [] c = "Q" -> "q" [] c = "R" -> "r" [] c = "S" -> "s" [] c = "T" -> "t"
      [] c = "U" -> "u" [] c = "V" -> "v" [] c = "W" -> "w" [] c = "X" -> "x"
      [] c = "Y" -> "y" [] c = "Z" -> "z"
      [] OTHER -> c

\* s.lower()
Lower(s0) == Bind(s0, LAMBDA s : [i \in 1..Len(s) |-> LowerChar(s[i])])

\* s.replace('+', ' ')
PlusToSpace(s0) ==
    Bind(s0, LAMBDA s : [i \in 1..Len(s) |-> IF s[i] = "+" THEN " " ELSE s[i]])

(***************************************************************************)
(* urllib.parse.unquote: %XX with two hex digits becomes the byte XX,      *)
(* decoded as UTF-8 with errors='replace'; any other % stays.  A byte      *)
(* above 0x7f is shown as the replacement character, an ASCII byte whose   *)
(* character the model has no name for as "ascii?".                        *)
(***************************************************************************)
HexDigits == Digits \cup {"a", "b", "c", "d", "e", "f", "A", "B", "C", "D", "E", "F"}

HexVal(c) ==
    CASE c = "0" -> 0 [] c = "1" -> 1 [] c = "2" -> 2 [] c = "3" -> 3
      [] c = "4" -> 4 [] c = "5" -> 5 [] c = "6" -> 6 [] c = "7" -> 7
      [] c = "8" -> 8 [] c = "9" -> 9
      [] c \in {"a", "A"} -> 10 [] c \in {"b", "B"} -> 11
      [] c \in {"c", "C"} -> 12 [] c \in {"d", "D"} -> 13
      [] c \in {"e", "E"} -> 14 [] c \in {"f", "F"} -> 15

Chr(n) ==
    CASE n = 32 -> " " [] n = 35 -> "#" [] n = 37 -> "%" [] n = 38 -> "&"
      [] n = 43 -> "+" [] n = 47 -> "/" [] n = 59 -> ";" [] n = 61 -> "="
      [] n = 63 -> "?" [] n = 64 -> "@" [] n = 118 -> "v"
      [] n >= 128 -> "U+FFFD"
      [] OTHER -> "ascii?"

\* One item of string.split('%')[1:], as unquote_to_bytes treats it.
UnquoteItem(item0) ==
    Bind(item0, LAMBDA item :
        IF Len(item) >= 2 /\ item[1] \in HexDigits /\ item[2] \in HexDigits
        THEN <<Chr(16 * HexVal(item[1]) + HexVal(item[2]))>>
             \o SubSeq(item, 3, Len(item))
        ELSE <<"%">> \o item)

\* unquote(s)
Unquote(s) ==
    Bind(Split(s, "%"), LAMBDA bits :
        bits[1] \o Concat([i \in 1..(Len(bits) - 1) |-> UnquoteItem(bits[i + 1])]))

(***************************************************************************)
(* urllib.parse.urlsplit / urlparse / parse_qs, as called on lines 32-35   *)
(* of services.py.                                                         *)
(***************************************************************************)
SchemeChars == LowerLetters \cup UpperLetters \cup Digits \cup {"+", "-", "."}

\* The schemes of uses_params that the modelled alphabet can spell.
UsesParams ==
    {<<>>, <<"f", "t", "p">>, <<"h", "t", "t", "p">>, <<"h", "t", "t", "p", "s">>}

\* The scheme of a URL whose leading blanks are stripped; <<>> when the
\* text before the first ':' is no scheme.  [scheme, rest]
SplitScheme(u0) ==
    Bind(u0, LAMBDA u : Bind(Find(u, ":", 1), LAMBDA i :
        IF /\ i > 1
           /\ u[1] \in LowerLetters \cup UpperLetters
           /\ \A k \in 1..(i - 1) : u[k] \in SchemeChars
        THEN [scheme |-> Lower(SubSeq(u, 1, i - 1)), rest |-> SubSeq(u, i + 1, Len(u))]
        ELSE [scheme |-> <<>>, rest |-> u]))

\* _splitnetloc after a leading "//".  [netloc, rest]
SplitNetloc(u0) ==
    Bind(u0, LAMBDA u :
        IF Len(u) >= 2 /\ u[1] = "/" /\ u[2] = "/"
        THEN Bind({k \in 3..Len(u) : u[k] \in {"/", "?", "#"}}, LAMBDA delims :
             Bind(IF delims = {} THEN Len(u) + 1 ELSE Min(delims), LAMBDA delim :
                [netloc |-> SubSeq(u, 3, delim - 1), rest |-> SubSeq(u, delim, Len(u))]))
        ELSE [netloc |-> <<>>, rest |-> u])

\* The ValueError urlsplit raises for a netloc, "" when it raises none.  A
\* bracketed host must be an IPv6 or IPvFuture literal; every bracketed host
\* the model builds is a name, which _check_bracketed_host rejects too.
NetlocError(netloc0) ==
    Bind(netloc0, LAMBDA netloc :
        IF HasChar(netloc, "[") # HasChar(netloc, "]") THEN "Invalid IPv6 URL"
        ELSE IF HasChar(netloc, "[") THEN "not an IPv6 address"
        ELSE "")

\* urlsplit: [err, scheme, netloc, path, query, fragment]
UrlSplit(u0) ==
    Bind(SplitScheme(LStrip(u0, {" "})), LAMBDA sc :
    Bind(SplitNetloc(sc.rest), LAMBDA nl :
    Bind(SplitOnce(nl.rest, "#"), LAMBDA fr :
    Bind(SplitOnce(fr[1], "?"), LAMBDA qr :
        [err |-> NetlocError(nl.netloc),
         scheme |-> sc.scheme,
         netloc |-> nl.netloc,
         path |-> qr[1],
         query |-> IF Len(qr) = 2 THEN qr[2] ELSE <<>>,
         fragment |-> IF Len(fr) = 2 THEN fr[2] ELSE <<>>]))))

\* _splitparams: the path without the ;params of its last segment.
SplitParams(path0) ==
    Bind(path0, LAMBDA path :
    Bind(IF HasChar(path, "/") THEN Find(path, ";", RFind(path, "/"))
         ELSE Find(path, ";", 1), LAMBDA i :
        IF i = 0 THEN path ELSE SubSeq(path, 1, i - 1)))

\* urlparse
UrlParse(u) ==
    Bind(UrlSplit(u), LAMBDA s :
        IF s.err = "" /\ s.scheme \in UsesParams /\ HasChar(s.path, ";")
        THEN [s EXCEPT !.path = SplitParams(s.path)]
        ELSE s)

\* One name=value argument of a query, as parse_qsl reads it: <<>> when it
\* is dropped (no '=', or a blank value), else <<(name, value)>>.
ParseQsArg(a) ==
    Bind(SplitOnce(a, "="), LAMBDA nv :
        IF Len(nv) = 2 /\ nv[2] # <<>>
        THEN <<<<Unquote(PlusToSpace(nv[1])), Unquote(PlusToSpace(nv[2]))>>>>
        ELSE <<>>)

\* parse_qsl(qs): the (name, value) pairs, blank values dropped.
ParseQsl(qs0) ==
    Bind(qs0, LAMBDA qs :
    Bind(IF qs = <<>> THEN <<>> ELSE Split(qs, "&"), LAMBDA args :
        Concat([i \in 1..Len(args) |-> ParseQsArg(args[i])])))

\* parse_qs(qs).get(name, [None])[0]; None is the empty string here, which
\* `not video_id` does not tell apart from it.
QueryGetFirst(qs, name) ==
    Bind(ParseQsl(qs), LAMBDA pairs :
    Bind({i \in 1..Len(pairs) : pairs[i][1] = name}, LAMBDA hits :
        IF hits = {} THEN <<>> ELSE pairs[Min(hits)][2]))

(***************************************************************************)
(* services.py: validate_youtube_url.  A result is [ok, url, err]: the     *)
(* canonical URL returned, or the message of the ValueError raised.        *)
(***************************************************************************)
YOUTU_BE == <<"y", "o", "u", "t", "u", ".", "b", "e">>

YOUTUBE_COM == <<"y", "o", "u", "t", "u", "b", "e", ".", "c", "o", "m">>

YOUTUBE_NOCOOKIE_COM ==
    <<"y", "o", "u", "t", "u", "b", "e", "-", "n", "o", "c", "o", "o", "k", "i", "e",
      ".", "c", "o", "m">>

HTTPS == <<"h", "t", "t", "p", "s">>

VIMEO_COM == <<"v", "i", "m", "e", "o", ".", "c", "o", "m">>

WATCH == <<"w", "a", "t", "c", "h">>

SHORTS == <<"s", "h", "o", "r", "t", "s">>

EMBED == <<"e", "m", "b", "e", "d">>

WATCH_PREFIX ==
    <<"h", "t", "t", "p", "s", ":", "/", "/", "w", "w", "w", ".", "y", "o", "u", "t",
      "u", "b", "e", ".", "c", "o", "m", "/", "w", "a", "t", "c", "h", "?", "v", "=">>

SHORTS_PREFIX ==
    <<"h", "t", "t", "p", "s", ":", "/", "/", "w", "w", "w", ".", "y", "o", "u", "t",
      "u", "b", "e", ".", "c", "o", "m", "/", "s", "h", "o", "r", "t", "s", "/">>

ErrMissingId == "Missing video id"

ErrShortsMissingId == "Invalid shorts URL (missing id)"

ErrUnsupported == "Unsupported YouTube URL format"

ErrNotYouTube == "URL is not a YouTube link"

Returned(u) == [ok |-> TRUE, url |-> u, err |-> ""]

Raised(e) == [ok |-> FALSE, url |-> <<>>, err |-> e]

\* watch_url (lines 37-40)
watch_url(video_id0) ==
    Bind(video_id0, LAMBDA video_id :
        IF video_id = <<>> THEN Raised(ErrMissingId)
        ELSE Returned(WATCH_PREFIX \o video_id))

\* path.split("/") alone: the empty segments are kept.
PathPartsKeepEmpty(path) == Split(path, "/")

\* parts = [p for p in path.split("/") if p] (line 49)
PathParts(path) == SelectSeq(Split(path, "/"), LAMBDA p : p # <<>>)

\* video_id = path.lstrip("/").split("/")[0] (line 44)
ShortLinkId(path) == Split(LStrip(path, {"/"}), "/")[1]

\* The branch for youtube.com and youtube-nocookie.com (lines 49-65).
StandardLink(parsed, parts0) ==
    Bind(parts0, LAMBDA parts :
    Bind(IF Len(parts) > 1 THEN parts[2] ELSE <<>>, LAMBDA second :
        IF parts # <<>> /\ parts[1] = WATCH
        THEN watch_url(QueryGetFirst(parsed.query, <<"v">>))
        ELSE IF parts # <<>> /\ parts[1] = SHORTS
        THEN IF second = <<>> THEN Raised(ErrShortsMissingId)
             ELSE Returned(SHORTS_PREFIX \o second)
        ELSE IF parts # <<>> /\ parts[1] = EMBED
        THEN watch_url(second)
        ELSE Raised(ErrUnsupported)))

validate_youtube_url(u) ==
    Bind(UrlParse(u), LAMBDA parsed :
    Bind(Lower(parsed.netloc), LAMBDA netloc :
        IF parsed.err # "" THEN Raised(parsed.err)
        ELSE IF Contains(netloc, YOUTU_BE) THEN watch_url(ShortLinkId(parsed.path))
        ELSE IF Contains(netloc, YOUTUBE_COM) \/ Contains(netloc, YOUTUBE_NOCOOKIE_COM)
        THEN StandardLink(parsed, PathParts(parsed.path))
        ELSE Raised(ErrNotYouTube)))

(***************************************************************************)
(* The Quiz and Question tables (quiz_app/models.py) and the responses.    *)
(***************************************************************************)
MaxQuizzes == 2

Users == {"alice", "bob"}

QuizIds == 1..MaxQuizzes

NoUser == "none"

NoQuiz == [user |-> NoUser, title |-> "", video_url |-> <<>>]

Exists(id) == id \in QuizIds /\ quizzes[id].user # NoUser

\* The payload of one question: question_title, question_options, answer.
QGood ==
    [question_title |-> "Q1", question_options |-> <<"A", "B", "C", "D">>, answer |-> "A"]

QGood2 ==
    [question_title |-> "Q2", question_options |-> <<"A", "B", "C", "D">>, answer |-> "B"]

\* The answer is none of the four options.
QWrongAnswer ==
    [question_title |-> "Q3", question_options |-> <<"A", "B", "C", "D">>, answer |-> "E"]

\* Three options, two of them equal.
QFewOptions ==
    [question_title |-> "Q4", question_options |-> <<"A", "A", "B">>, answer |-> "A"]

\* No answer (a blank string).
QNoAnswer ==
    [question_title |-> "Q5", question_options |-> <<"A", "B", "C", "D">>, answer |-> ""]

\* What json.loads can return for the model's reply: keys says whether the
\* object has the keys views.py reads (title, description, questions).
Drafts ==
    {[keys |-> TRUE, title |-> "T", questions |-> <<QGood>>],
     [keys |-> TRUE, title |-> "T", questions |-> <<QGood, QGood2>>],
     [keys |-> TRUE, title |-> "T", questions |-> <<QWrongAnswer>>],
     [keys |-> TRUE, title |-> "T", questions |-> <<QFewOptions>>],
     [keys |-> TRUE, title |-> "T", questions |-> <<QNoAnswer>>],
     [keys |-> TRUE, title |-> "", questions |-> <<QGood>>],
     [keys |-> FALSE, title |-> "", questions |-> <<>>]}

\* The drafts the requests of SpecStore carry.
StoreDrafts ==
    {d \in Drafts : d.title = "T" => d.questions \in {<<QGood>>, <<QWrongAnswer>>, <<QNoAnswer>>}}

\* QuestionSerializer (serializers.py lines 6-9): a ModelSerializer over
\* Question, so question_title and answer are required non-blank strings and
\* question_options is any JSON value.  No validate method adds a rule.
QuestionIsValid(q) == q.question_title # "" /\ q.answer # ""

\* QuizCreationSerializer.is_valid on the fields that are sent (lines 11-22):
\* title a non-blank string, questions a list of valid questions.
FieldsAreValid(hasTitle, title, hasQuestions, qs) ==
    /\ hasTitle => title # ""
    /\ hasQuestions => \A i \in 1..Len(qs) : QuestionIsValid(qs[i])

\* Quiz.objects.create and the Question.objects.create loop (lines 33-37),
\* each row committed on its own; failAt > 0: the database raises on the
\* failAt-th question, 0: it raises on none.
SerializerCreate(user, video_url, title, qs, failAt) ==
    /\ quizzes' = [quizzes EXCEPT ![nextId] =
                      [user |-> user, title |-> title, video_url |-> video_url]]
    /\ questions' = [questions EXCEPT ![nextId] =
                      IF failAt = 0 THEN qs ELSE SubSeq(qs, 1, failAt - 1)]
    /\ nextId' = nextId + 1

\* The status of views.py lines 36-47 for a draft: KeyError on a missing key,
\* ValidationError, an error of the database, or 201.
CreateStatus(d, failAt) ==
    IF ~d.keys THEN 500
    ELSE IF ~FieldsAreValid(TRUE, d.title, TRUE, d.questions) THEN 400
    ELSE IF failAt > 0 THEN 500
    ELSE 201

\* Lines 36-47 of CreateQuizView.post: build data, is_valid, save.
SaveDraft(user, video_url, d, failAt) ==
    IF ~d.keys \/ ~FieldsAreValid(TRUE, d.title, TRUE, d.questions)
    THEN UNCHANGED storeVars
    ELSE SerializerCreate(user, video_url, d.title, d.questions, failAt)

NoResp ==
    [op |-> "none", to |-> NoUser, id |-> 0, status |-> 0, owners |-> {},
     foreign |-> FALSE, hasQuestions |-> FALSE, sent |-> <<>>]

\* Whether quiz id is another user's when `user` asks for it.
Foreign(id, user) == Exists(id) /\ quizzes[id].user # user

InitStoreVars ==
    /\ quizzes = [id \in QuizIds |-> NoQuiz]
    /\ questions = [id \in QuizIds |-> <<>>]
    /\ nextId = 1
    /\ resp = NoResp

\* Quiz.objects.all(): the quizzes of every user.
QuizzesOfAnyUser(user) == {id \in QuizIds : Exists(id)}

\* Quiz.objects.filter(user=request.user) (line 56)
QuizzesOfUser(user) == {id \in QuizIds : quizzes[id].user = user}

\* Quiz.objects.get(id=quiz_id, user=request.user): the id, 0 on DoesNotExist.
LookupQuiz(id, user) == IF Exists(id) /\ quizzes[id].user = user THEN id ELSE 0

\* The status lines 68-73, 83-88 and 99-104 decide before the handler acts;
\* 0 when the handler goes on.
LookupStatus(id, user) ==
    IF LookupQuiz(id, user) = 0 THEN 404
    ELSE IF user # quizzes[id].user THEN 403
    ELSE 0

\* POST /createQuiz/ from the draft on (lines 36-47).
CreateQuiz(user, d, failAt) ==
    /\ nextId <= MaxQuizzes
    /\ failAt > 0 => (d.keys /\ FieldsAreValid(TRUE, d.title, TRUE, d.questions))
    /\ SaveDraft(user, WATCH_PREFIX \o <<"x", "Y">>, d, failAt)
    /\ resp' = [op |-> "create", to |-> user,
                id |-> IF CreateStatus(d, failAt) = 201 THEN nextId ELSE 0,
                status |-> CreateStatus(d, failAt),
                owners |-> IF CreateStatus(d, failAt) = 201 THEN {user} ELSE {},
                foreign |-> FALSE, hasQuestions |-> TRUE, sent |-> d.questions]
    /\ UNCHANGED <<urlVars, pipeVars>>

\* GET /quizzes/ (lines 52-59)
ListQuizzes(user) ==
    /\ resp' = [op |-> "list", to |-> user, id |-> 0, status |-> 200,
                owners |-> {quizzes[id].user : id \in QuizzesOfUser(user)},
                foreign |-> FALSE, hasQuestions |-> FALSE, sent |-> <<>>]
    /\ UNCHANGED <<urlVars, storeVars, pipeVars>>

\* GET /quizzes/<id>/ (lines 64-77)
GetQuiz(user, id) ==
    /\ resp' = [op |-> "get", to |-> user, id |-> id,
                status |-> IF LookupStatus(id, user) = 0 THEN 200
                           ELSE LookupStatus(id, user),
                owners |-> IF LookupStatus(id, user) = 0 THEN {quizzes[id].user}
                           ELSE {},
                foreign |-> Foreign(id, user), hasQuestions |-> FALSE, sent |-> <<>>]
    /\ UNCHANGED <<urlVars, storeVars, pipeVars>>

\* The bodies of PATCH: any of title and questions may be absent.
PatchBodies ==
    {[hasTitle |-> FALSE, title |-> "", hasQuestions |-> FALSE, questions |-> <<>>],
     [hasTitle |-> TRUE, title |-> "T2", hasQuestions |-> FALSE, questions |-> <<>>],
     [hasTitle |-> TRUE, title |-> "", hasQuestions |-> FALSE, questions |-> <<>>],
     [hasTitle |-> FALSE, title |-> "", hasQuestions |-> TRUE, questions |-> <<QGood2>>],
     [hasTitle |-> TRUE, title |-> "T2", hasQuestions |-> TRUE, questions |-> <<QGood2>>]}

\* ModelSerializer.update, which the serializer does not override: with
\* 'questions' among the validated data it raises (writable nested fields
\* are not supported), else it sets the fields that were sent and saves.
PatchStatus(id, user, b) ==
    IF LookupStatus(id, user) # 0 THEN LookupStatus(id, user)
    ELSE IF ~FieldsAreValid(b.hasTitle, b.title, b.hasQuestions, b.questions) THEN 400
    ELSE IF b.hasQuestions THEN 500
    ELSE 200

\* PATCH /quizzes/<id>/ (lines 79-94)
PatchQuiz(user, id, b) ==
    /\ IF PatchStatus(id, user, b) = 200 /\ b.hasTitle
       THEN quizzes' = [quizzes EXCEPT ![id].title = b.title]
       ELSE UNCHANGED quizzes
    /\ resp' = [op |-> "patch", to |-> user, id |-> id,
                status |-> PatchStatus(id, user, b),
                owners |-> IF PatchStatus(id, user, b) = 200 THEN {quizzes[id].user}
                           ELSE {},
                foreign |-> Foreign(id, user),
                hasQuestions |-> b.hasQuestions, sent |-> b.questions]
    /\ UNCHANGED <<urlVars, questions, nextId, pipeVars>>

\* DELETE /quizzes/<id>/ (lines 96-108); the questions go with the quiz
\* (models.py line 15, on_delete=CASCADE).
DeleteQuiz(user, id) ==
    /\ IF LookupStatus(id, user) = 0
       THEN /\ quizzes' = [quizzes EXCEPT ![id] = NoQuiz]
            /\ questions' = [questions EXCEPT ![id] = <<>>]
       ELSE UNCHANGED <<quizzes, questions>>
    /\ resp' = [op |-> "delete", to |-> user, id |-> id,
                status |-> IF LookupStatus(id, user) = 0 THEN 204
                           ELSE LookupStatus(id, user),
                owners |-> {}, foreign |-> Foreign(id, user),
                hasQuestions |-> FALSE, sent |-> <<>>]
    /\ UNCHANGED <<urlVars, nextId, pipeVars>>

(***************************************************************************)
(* CreateQuizView.post (views.py lines 20-47), one step per blocking call, *)
(* with the requests of MaxRuns clients in flight together.                *)
(***************************************************************************)
MaxRuns == 2

MaxClock == 1

Runs == 1..MaxRuns

Paths == 0..MaxClock

NoDraft == [keys |-> FALSE, title |-> "none", questions |-> <<>>]

IdleRun ==
    [pc |-> "idle", user |-> NoUser, audio_path |-> 0, youtube_url |-> <<>>,
     wrote |-> FALSE, dlFailed |-> FALSE, stages |-> {}, transcript |-> 0,
     quiz_data |-> NoDraft, status |-> 0, failedAt |-> "none"]

\* The URLs clients post: a short link, a link to another site, a YouTube
\* page that is no video.
PostedUrls ==
    {HTTPS \o <<":", "/", "/">> \o YOUTU_BE \o <<"/", "x", "Y">>,
     HTTPS \o <<":", "/", "/">> \o VIMEO_COM \o <<"/", "x", "Y">>,
     HTTPS \o <<":", "/", "/">> \o YOUTUBE_COM \o <<"/", "f", "e", "e", "d">>}

InitPipeVars ==
    /\ clock = 0
    /\ files = [p \in Paths |-> 0]
    /\ run = [r \in Runs |-> IdleRun]

\* The response of a create-quiz request.
PostResp(user, id, status, sent) ==
    [op |-> "create", to |-> user, id |-> id, status |-> status,
     owners |-> IF status = 201 THEN {user} ELSE {},
     foreign |-> FALSE, hasQuestions |-> TRUE, sent |-> sent]

\* An exception no handler catches leaves post: DRF's exception handler
\* knows APIException, Http404 and PermissionDenied only, so a ValueError,
\* RuntimeError or KeyError becomes Django's 500 response.
Abort(r, stage, ranStages) ==
    /\ run' = [run EXCEPT ![r].pc = "failed", ![r].status = 500,
                          ![r].failedAt = stage,
                          ![r].stages = run[r].stages \cup ranStages,
                          ![r].transcript = 0, ![r].quiz_data = NoDraft]
    /\ resp' = PostResp(run[r].user, 0, 500, <<>>)

\* time.time() moves on.
Tick ==
    /\ clock < MaxClock
    /\ clock' = clock + 1
    /\ UNCHANGED <<urlVars, storeVars, resp, files, run>>

\* Lines 27-29: audio_path from the clock, then validate_youtube_url.
StartPost(r, user, u) ==
    /\ run[r].pc = "idle"
    /\ IF validate_youtube_url(u).ok
       THEN /\ run' = [run EXCEPT ![r].pc = "download", ![r].user = user,
                                  ![r].audio_path = clock,
                                  ![r].youtube_url = validate_youtube_url(u).url,
                                  ![r].stages = {"normalize"}]
            /\ UNCHANGED resp
       ELSE /\ run' = [run EXCEPT ![r].pc = "failed", ![r].user = user,
                                  ![r].audio_path = clock, ![r].status = 500,
                                  ![r].failedAt = "normalize",
                                  ![r].stages = {"normalize"}]
            /\ resp' = PostResp(user, 0, 500, <<>>)
    /\ UNCHANGED <<urlVars, storeVars, clock, files>>

\* Line 30, download_audio_from_youtube (services.py lines 70-106): without
\* ffmpeg it raises; an exception of ydl.download is printed and dropped.
Download(r, ffmpeg, downloaded) ==
    /\ run[r].pc = "download"
    /\ IF ~ffmpeg
       THEN /\ downloaded
            /\ Abort(r, "acquire", {"acquire"})
            /\ UNCHANGED files
       ELSE /\ run' = [run EXCEPT ![r].pc = "transcribe",
                                  ![r].wrote = downloaded,
                                  ![r].dlFailed = ~downloaded,
                                  ![r].stages = run[r].stages \cup {"acquire"}]
            /\ files' = IF downloaded
                        THEN [files EXCEPT ![run[r].audio_path] = r]
                        ELSE files
            /\ UNCHANGED resp
    /\ UNCHANGED <<urlVars, storeVars, clock>>

\* Line 31, transcribe_audio (services.py lines 109-136): whisper reads
\* audio_path + ".mp3"; it raises when the file is missing, and loading the
\* model or decoding may raise too (loaded = FALSE).
Transcribe(r, loaded) ==
    /\ run[r].pc = "transcribe"
    /\ IF loaded /\ files[run[r].audio_path] # 0
       THEN /\ run' = [run EXCEPT ![r].pc = "generate",
                                  ![r].transcript = files[run[r].audio_path],
                                  ![r].stages = run[r].stages \cup {"transcribe"}]
            /\ UNCHANGED resp
       ELSE Abort(r, "transcribe", {"transcribe"})
    /\ UNCHANGED <<urlVars, storeVars, clock, files>>

\* Line 32, create_quiz_from_transcript (services.py lines 139-191): the
\* reply of the model is parsed by json.loads, which raises ValueError on a
\* reply that is no JSON (parsable = FALSE).
Generate(r, parsable, d) ==
    /\ run[r].pc = "generate"
    /\ IF parsable
       THEN /\ run' = [run EXCEPT ![r].pc = "persist", ![r].quiz_data = d,
                                  ![r].stages = run[r].stages \cup {"generate"}]
            /\ UNCHANGED resp
       ELSE /\ d = NoDraft
            /\ Abort(r, "generate", {"generate"})
    /\ UNCHANGED <<urlVars, storeVars, clock, files>>

\* cleanup_temp_files (services.py lines 193-207): the file is removed when
\* it exists; an error of os.remove is printed and dropped, and the file
\* stays (removed = FALSE).
cleanup_temp_files(path, removed) ==
    IF removed THEN [files EXCEPT ![path] = 0] ELSE files

\* The stage at which lines 36-45 stop for a draft.
PersistStage(d, failAt) ==
    IF ~d.keys THEN "draft"
    ELSE IF ~FieldsAreValid(TRUE, d.title, TRUE, d.questions) THEN "validate"
    ELSE IF failAt > 0 THEN "persist"
    ELSE "none"

\* Lines 33-47: cleanup, then the draft is read, validated and saved.
Persist(r, failAt, removed) ==
    /\ run[r].pc = "persist"
    /\ ~removed => files[run[r].audio_path] # 0
    /\ nextId <= MaxQuizzes
    /\ failAt > 0 => PersistStage(run[r].quiz_data, 0) = "none"
    /\ files' = cleanup_temp_files(run[r].audio_path, removed)
    /\ SaveDraft(run[r].user, run[r].youtube_url, run[r].quiz_data, failAt)
    /\ run' = [run EXCEPT
                 ![r].pc = IF CreateStatus(run[r].quiz_data, failAt) = 201
                           THEN "done" ELSE "failed",
                 ![r].status = CreateStatus(run[r].quiz_data, failAt),
                 ![r].failedAt = PersistStage(run[r].quiz_data, failAt),
                 ![r].stages = run[r].stages \cup
                     {"cleanup"} \cup
                     (IF run[r].quiz_data.keys THEN {"validate"} ELSE {}) \cup
                     (IF PersistStage(run[r].quiz_data, 0) = "none"
                      THEN {"persist"} ELSE {}),
                 ![r].transcript = 0, ![r].quiz_data = NoDraft]
    /\ resp' = PostResp(run[r].user,
                        IF CreateStatus(run[r].quiz_data, failAt) = 201 THEN nextId ELSE 0,
                        CreateStatus(run[r].quiz_data, failAt),
                        run[r].quiz_data.questions)
    /\ UNCHANGED <<urlVars, clock>>

(***************************************************************************)
(* SpecUrl: validate_youtube_url applied to URL strings assembled from     *)
(* components  scheme://netloc/seg/seg;params?key=value&...#fragment,      *)
(* and applied again to the URL it returned.                               *)
(***************************************************************************)
MaxSegs == 2

MaxParams == 1

SeqsUpTo(S, n) == UNION {[1..k -> S] : k \in 0..n}

\* scheme, whether "//" introduces the netloc, and the netloc text.  Without
\* "//" the text is what a user who left the scheme out typed first.
UrlPrefixes ==
    {[scheme |-> HTTPS, auth |-> TRUE, netloc |-> YOUTU_BE],
     [scheme |-> HTTPS, auth |-> TRUE, netloc |-> <<"w", "w", "w", ".">> \o YOUTUBE_COM],
     [scheme |-> HTTPS, auth |-> TRUE, netloc |-> <<"Y", "o", "u", "T", "u", "b", "e", ".", "c", "o", "m">>],
     [scheme |-> <<>>, auth |-> TRUE, netloc |-> <<"w", "w", "w", ".">> \o YOUTUBE_NOCOOKIE_COM],
     [scheme |-> HTTPS, auth |-> TRUE, netloc |-> YOUTU_BE \o <<".">> \o YOUTUBE_COM],
     [scheme |-> HTTPS, auth |-> TRUE, netloc |-> YOUTU_BE \o <<"@">> \o VIMEO_COM],
     [scheme |-> HTTPS, auth |-> TRUE, netloc |-> VIMEO_COM],
     [scheme |-> HTTPS, auth |-> TRUE, netloc |-> <<"[">> \o YOUTU_BE],
     [scheme |-> <<>>, auth |-> FALSE, netloc |-> YOUTU_BE]}

UrlSegs == {<<>>, WATCH, SHORTS, EMBED, <<"x", "%", "2", "B", "y">>}

\* key=value items of the query; eq says whether the "=" is written.
UrlQueryItems ==
    {[key |-> <<"v">>, eq |-> TRUE, val |-> <<"x", "Y">>],
     [key |-> <<"v">>, eq |-> TRUE, val |-> <<>>],
     [key |-> <<"v">>, eq |-> FALSE, val |-> <<>>],
     [key |-> <<"x">>, eq |-> TRUE, val |-> <<"x", "Y">>],
     [key |-> <<"%", "7", "6">>, eq |-> TRUE, val |-> <<"x", "+", "%", "2", "B", "y">>]}

UrlTails ==
    {[params |-> FALSE, fragment |-> FALSE],
     [params |-> TRUE, fragment |-> FALSE],
     [params |-> FALSE, fragment |-> TRUE]}

NoUrlComp ==
    [scheme |-> <<>>, auth |-> FALSE, netloc |-> <<>>, segs |-> <<>>, query |-> <<>>,
     params |-> FALSE, fragment |-> FALSE]

\* The inputs: every combination of the components above, and the empty
\* string (urlparse(None), a body without 'url', parses like it).
UrlComps ==
    {NoUrlComp} \cup
    {[scheme |-> p.scheme, auth |-> p.auth, netloc |-> p.netloc, segs |-> sg,
      query |-> q, params |-> t.params, fragment |-> t.fragment] :
        p \in UrlPrefixes, sg \in SeqsUpTo(UrlSegs, MaxSegs),
        q \in SeqsUpTo(UrlQueryItems, MaxParams),
        t \in UrlTails}

QueryItemText(it) == it.key \o (IF it.eq THEN <<"=">> ELSE <<>>) \o it.val

AssembleUrl(c) ==
    (IF c.scheme # <<>> THEN c.scheme \o <<":">> ELSE <<>>)
    \o (IF c.auth THEN <<"/", "/">> ELSE <<>>) \o c.netloc
    \o Concat([i \in 1..Len(c.segs) |-> <<"/">> \o c.segs[i]])
    \o (IF c.params /\ c.segs # <<>> THEN <<";", "p">> ELSE <<>>)
    \o (IF c.query # <<>> THEN <<"?">> ELSE <<>>)
    \o Concat([i \in 1..Len(c.query) |->
                 (IF i > 1 THEN <<"&">> ELSE <<>>) \o QueryItemText(c.query[i])])
    \o (IF c.fragment THEN <<"#", "t">> ELSE <<>>)

NoResult == [ok |-> FALSE, url |-> <<>>, err |-> "not called"]

InitUrl ==
    /\ comp \in UrlComps
    /\ url = AssembleUrl(comp)
    /\ norm1 = NoResult
    /\ norm2 = NoResult
    /\ upc = "input"
    /\ InitStoreVars
    /\ InitPipeVars

Normalize ==
    /\ upc = "input"
    /\ norm1' = validate_youtube_url(url)
    /\ upc' = "normalized"
    /\ UNCHANGED <<url, comp, norm2, storeVars, resp, pipeVars>>

\* normalize(normalize(u)): the returned URL is parsed again.
Renormalize ==
    /\ upc = "normalized"
    /\ norm1.ok
    /\ norm2' = validate_youtube_url(norm1.url)
    /\ upc' = "renormalized"
    /\ UNCHANGED <<url, comp, norm1, storeVars, resp, pipeVars>>

NextUrl == Normalize \/ Renormalize

SpecUrl == InitUrl /\ [][NextUrl]_vars

\* No URL under test: the state of the URL variables in the other two
\* specifications.
IdleUrlVars ==
    /\ comp = NoUrlComp
    /\ url = <<>>
    /\ norm1 = NoResult
    /\ norm2 = NoResult
    /\ upc = "input"

(***************************************************************************)
(* SpecStore: the endpoints over the tables, a create-quiz request taken   *)
(* from the draft on.                                                      *)
(***************************************************************************)
InitStore == IdleUrlVars /\ InitStoreVars /\ InitPipeVars

NextStore ==
    \/ \E user \in Users, d \in StoreDrafts :
         \E failAt \in 0..Len(d.questions) : CreateQuiz(user, d, failAt)
    \/ \E user \in Users : ListQuizzes(user)
    \/ \E user \in Users, id \in QuizIds : GetQuiz(user, id)
    \/ \E user \in Users, id \in QuizIds, b \in PatchBodies : PatchQuiz(user, id, b)
    \/ \E user \in Users, id \in QuizIds : DeleteQuiz(user, id)

SpecStore == InitStore /\ [][NextStore]_vars

(***************************************************************************)
(* SpecPipeline: create-quiz requests stage by stage, interleaved.         *)
(***************************************************************************)
InitPipeline == IdleUrlVars /\ InitStoreVars /\ InitPipeVars

NextPipeline ==
    \/ Tick
    \/ \E r \in Runs, user \in Users, u \in PostedUrls : StartPost(r, user, u)
    \/ \E r \in Runs, ffmpeg \in BOOLEAN, downloaded \in BOOLEAN :
         Download(r, ffmpeg, downloaded)
    \/ \E r \in Runs, loaded \in BOOLEAN : Transcribe(r, loaded)
    \/ \E r \in Runs, parsable \in BOOLEAN, d \in Drafts \cup {NoDraft} :
         Generate(r, parsable, d)
    \/ \E r \in Runs, removed \in BOOLEAN :
         \E failAt \in 0..Len(run[r].quiz_data.questions) :
            Persist(r, failAt, removed)

SpecPipeline == InitPipeline /\ [][NextPipeline]_vars

(***************************************************************************)
(* The rule table of validate_youtube_url, read off the components the     *)
(* input was assembled from.                                               *)
(***************************************************************************)
TableHost(c) == IF c.auth THEN Lower(c.netloc) ELSE <<>>

TableSegs(c) == SelectSeq(c.segs, LAMBDA p : p # <<>>)

TableSeg(c, n) ==
    Bind(TableSegs(c), LAMBDA sg : IF Len(sg) >= n THEN sg[n] ELSE <<>>)

\* The decoded value of the first v parameter that has a value.
TableV(c) ==
    Bind({i \in 1..Len(c.query) :
            /\ c.query[i].eq
            /\ c.query[i].val # <<>>
            /\ Unquote(PlusToSpace(c.query[i].key)) = <<"v">>}, LAMBDA hits :
        IF hits = {} THEN <<>>
        ELSE Unquote(PlusToSpace(c.query[Min(hits)].val)))

TableWatch(id) ==
    IF id = <<>> THEN Raised(ErrMissingId) ELSE Returned(WATCH_PREFIX \o id)

TableResult(c) ==
    Bind(TableHost(c), LAMBDA host :
        IF Contains(host, YOUTU_BE) THEN TableWatch(TableSeg(c, 1))
        ELSE IF Contains(host, YOUTUBE_COM) \/ Contains(host, YOUTUBE_NOCOOKIE_COM)
        THEN CASE TableSeg(c, 1) = WATCH -> TableWatch(TableV(c))
               [] TableSeg(c, 1) = SHORTS ->
                    IF TableSeg(c, 2) = <<>> THEN Raised(ErrShortsMissingId)
                    ELSE Returned(SHORTS_PREFIX \o TableSeg(c, 2))
               [] TableSeg(c, 1) = EMBED -> TableWatch(TableSeg(c, 2))
               [] OTHER -> Raised(ErrUnsupported)
        ELSE Raised(ErrNotYouTube))

\* urlparse itself raises: the netloc holds one bracket without the other.
UrlparseRejects(c) ==
    c.auth /\ (HasChar(c.netloc, "[") # HasChar(c.netloc, "]"))

C7_Idempotent == upc = "renormalized" => norm2 = norm1

(***************************************************************************)
(* The claims about the pipeline and the endpoints.                        *)
(***************************************************************************)
Range(f) == {f[i] : i \in DOMAIN f}

\* Exactly 4 distinct options, the answer one of them.
WellFormed(q) ==
    /\ Len(q.question_options) = 4
    /\ Cardinality(Range(q.question_options)) = 4
    /\ q.answer \in Range(q.question_options)

AllWellFormed(qs) == \A i \in 1..Len(qs) : WellFormed(qs[i])

Ended(r) == run[r].pc \in {"done", "failed"}

InFlight(r) == run[r].pc \in {"download", "transcribe", "generate", "persist"}

\* C1: when a run of the create-quiz pipeline ends, in success or in a
\* failure, the audio file its download wrote no longer exists.
C1_CleanupGuarantee ==
    \A r \in Runs : (Ended(r) /\ run[r].wrote) => files[run[r].audio_path] = 0

\* C2: a draft handed to persistence, on create or on PATCH, is accepted only
\* if every question has exactly 4 distinct options and its answer among
\* them; a draft that violates this is rejected and leaves the Quiz and
\* Question tables as they were.
C2_SchemaValidation ==
    [][(resp'.op \in {"create", "patch"} /\ resp'.hasQuestions
        /\ ~AllWellFormed(resp'.sent))
       => (resp'.status \notin {200, 201}
           /\ quizzes' = quizzes /\ questions' = questions)]_vars

\* C3: a request of one principal never returns, modifies or removes a quiz
\* of another: the quizzes in a response all belong to the caller, a get,
\* patch or delete on another's quiz id answers 404 or 403, and the rows of
\* every quiz the caller does not own are the same after the request.
C3_OwnershipIsolation ==
    [][/\ resp'.owners \subseteq {resp'.to}
       /\ \A id \in QuizIds :
            (Exists(id) /\ quizzes[id].user # resp'.to) =>
                /\ quizzes'[id] = quizzes[id]
                /\ questions'[id] = questions[id]
                /\ (resp'.op \in {"get", "patch", "delete"} /\ resp'.id = id)
                     => resp'.status \in {403, 404}]_vars

\* C3 witness: bob sent a PATCH with a new title for a quiz of alice, got
\* 404, and the quiz still has the title it was created with.
C3_Witness ==
    /\ resp.op = "patch"
    /\ resp.to = "bob"
    /\ resp.foreign
    /\ resp.status = 404
    /\ quizzes[resp.id].user = "alice"
    /\ quizzes[resp.id].title = "T"

\* C4: when creating one Question row of a batch fails, neither the Quiz row
\* nor any Question row of the batch is stored afterwards.
C4_AtomicCreate ==
    [][\A r \in Runs :
         (run[r].pc = "persist" /\ run'[r].failedAt = "persist")
            => (quizzes' = quizzes /\ questions' = questions)]_vars

\* C5: two create-quiz runs in flight at the same time never have the same
\* audio_path.
C5_UniqueAudioPath ==
    \A r1 \in Runs, r2 \in Runs :
        (r1 # r2 /\ InFlight(r1) /\ InFlight(r2))
            => run[r1].audio_path # run[r2].audio_path

\* C8: a PATCH by the owner that supplies 'questions' succeeds and leaves
\* exactly the supplied questions stored for the quiz; one that does not
\* supply them leaves the quiz's questions as they were.
C8_PartialUpdate ==
    [][\A id \in QuizIds :
         (resp'.op = "patch" /\ resp'.id = id /\ Exists(id)
          /\ quizzes[id].user = resp'.to)
            => IF resp'.hasQuestions
               THEN resp'.status = 200 /\ questions'[id] = resp'.sent
               ELSE questions'[id] = questions[id]]_vars

\* C9: a POST whose URL validate_youtube_url rejects is answered with a 400,
\* and nothing else was done for it: no download, transcription or model
\* call, no file written, no row stored.
C9_RejectedUrl ==
    \A r \in Runs :
        run[r].failedAt = "normalize" =>
            /\ run[r].status = 400
            /\ run[r].stages = {"normalize"}
            /\ ~run[r].wrote

\* C10: a stage that fails ends the run and no later stage executes; when
\* the download fails inside download_audio_from_youtube, neither
\* transcription nor generation nor persistence is executed.
C10_FailureAborts ==
    \A r \in Runs :
        /\ run[r].failedAt = "normalize" => run[r].stages = {"normalize"}
        /\ run[r].failedAt = "acquire" =>
              run[r].stages \cap {"transcribe", "generate", "cleanup", "validate", "persist"} = {}
        /\ run[r].failedAt = "transcribe" =>
              run[r].stages \cap {"generate", "cleanup", "validate", "persist"} = {}
        /\ run[r].failedAt = "generate" =>
              run[r].stages \cap {"cleanup", "validate", "persist"} = {}
        /\ run[r].dlFailed =>
              run[r].stages \cap {"transcribe", "generate", "validate", "persist"} = {}

====
